---------------------------- MODULE Spec2Model ----------------------------
(***************************************************************************)
(* Model of src/lambda/index.py: the self-healing Lambda handler that asks *)
(* a Bedrock model for a remediation plan for an ECS event and, in active  *)
(* mode, executes one action against ECS / Auto Scaling.                   *)
(*                                                                         *)
(* Strings the code takes apart (detail.group, detail.serviceArn,          *)
(* detail.reason, the model's output text) are sequences of tokens, so     *)
(* that startswith / split / join / "in" / re.search / json.loads are      *)
(* computed, not assumed.  Strings the code only compares are TLA+         *)
(* strings.                                                                *)
(***************************************************************************)
EXTENDS Integers, Sequences, FiniteSets, TLC

(* ------------------------------ bounds -------------------------------- *)
\* longest model output text, in tokens, of the exhaustive text slice
MaxTextLen == 4
\* largest capacity-group size / service desired count of the environment
MaxCap == 2
\* most running tasks the service has
MaxTasks == 2
\* longest detail.group and detail.serviceArn, in tokens
MaxStrLen == 3
\* most members of a JSON object in the model's text
MaxMembers == 3

(* ------------------------- Python-level helpers ------------------------ *)
\* the empty str
Empty == <<>>

\* d.get(k) is truthy: key present and value not the empty str
Truthy(d, k) == k \in DOMAIN d /\ d[k] # Empty

\* a or b, for str operands (a given as "d.get(k)")
GetOr(d, k, b) == IF Truthy(d, k) THEN d[k] ELSE b

\* index of the first occurrence of token c in s, 0 when there is none
FirstIndex(s, c) ==
  IF \E i \in 1..Len(s) : s[i] = c
  THEN CHOOSE i \in 1..Len(s) : s[i] = c /\ \A j \in 1..(i - 1) : s[j] # c
  ELSE 0

\* index of the last occurrence of token c in s, 0 when there is none
LastIndex(s, c) ==
  IF \E i \in 1..Len(s) : s[i] = c
  THEN CHOOSE i \in 1..Len(s) : s[i] = c /\ \A j \in (i + 1)..Len(s) : s[j] # c
  ELSE 0

\* s.split(sep): the segments between the occurrences of sep (never empty list)
RECURSIVE Split(_, _)
Split(s, sep) ==
  LET i == FirstIndex(s, sep)
  IN  IF i = 0 THEN <<s>>
      ELSE <<SubSeq(s, 1, i - 1)>> \o Split(SubSeq(s, i + 1, Len(s)), sep)

\* faulty variant of SplitOnceRest: split without the limit, s.split(sep)[1]
SplitSecond(s, sep) == Split(s, sep)[2]

\* s.split(sep, 1)[1], for s that holds sep: what follows the first sep
SplitOnceRest(s, sep) == SubSeq(s, FirstIndex(s, sep) + 1, Len(s))

\* sep.join(parts)
RECURSIVE Join(_, _)
Join(parts, sep) ==
  IF Len(parts) = 0 THEN Empty
  ELSE IF Len(parts) = 1 THEN parts[1]
  ELSE parts[1] \o <<sep>> \o Join(Tail(parts), sep)

\* parts[:-1]
AllButLast(parts) == SubSeq(parts, 1, Len(parts) - 1)

\* s.startswith(p)
StartsWith(s, p) == Len(s) >= Len(p) /\ SubSeq(s, 1, Len(p)) = p

\* p in s  (substring test)
Contains(s, p) ==
  \E i \in 1..(Len(s) - Len(p) + 1) : SubSeq(s, i, i + Len(p) - 1) = p

\* the prefix "service:" of detail.group and the marker of a capacity shortage
ServicePrefix == <<"service", ":">>
CapacityMarker == <<"RESOURCE", ":", "INSTANCE">>

(* ------------------------------ JSON values ---------------------------- *)
\* a JSON scalar: its type and its literal
JStr(s) == [type |-> "string", lit |-> s]
JNum(s) == [type |-> "number", lit |-> s]
JNull == [type |-> "null", lit |-> "null"]

\* int(x) of Python for the literals of the model: defined on ints, on floats
\* (truncation) and on strings of digits; raises on anything else
IntDigits == [x \in {"0", "1", "2"} |-> CASE x = "0" -> 0 [] x = "1" -> 1 [] x = "2" -> 2]
IntRaises(v) ==
  \/ v.type = "null"
  \/ v.type = "string" /\ v.lit \notin DOMAIN IntDigits
IntOf(v) ==
  IF v.lit \in DOMAIN IntDigits THEN IntDigits[v.lit]
  ELSE IF v = JNum("2.7") THEN 2
  ELSE 0

(* --------------------------- model output text ------------------------- *)
\* tokens of the model's text: an opening brace, a closing brace, text that is
\* no JSON, and a member  "key": value  of an object
LB == [t |-> "{", k |-> "", v |-> JNull]
RB == [t |-> "}", k |-> "", v |-> JNull]
Junk == [t |-> "junk", k |-> "", v |-> JNull]
Member(k, v) == [t |-> "member", k |-> k, v |-> v]

\* re.search(r"\{[\s\S]*\}", text): greedy, from the first "{" to the last "}"
HasMatch(text) ==
  FirstIndex(text, LB) > 0 /\ LastIndex(text, RB) > FirstIndex(text, LB)
MatchGroup(text) == SubSeq(text, FirstIndex(text, LB), LastIndex(text, RB))

\* json.loads(blob) of a blob that starts with "{" and ends with "}": an object
\* exactly when everything between the two braces is a member
JsonParses(blob) ==
  \A i \in 2..(Len(blob) - 1) : blob[i].t = "member"
\* the parsed object: a later member of the same key replaces an earlier one
JsonLoads(blob) ==
  LET keys == {blob[i].k : i \in 2..(Len(blob) - 1)}
      last(k) == CHOOSE i \in 2..(Len(blob) - 1) :
                   blob[i].k = k /\ \A j \in (i + 1)..(Len(blob) - 1) : blob[j].k # k
  IN  [k \in keys |-> blob[last(k)].v]

\* dict with key k set to v when k is absent
SetDefault(d, k, v) == IF k \in DOMAIN d THEN d ELSE (k :> v) @@ d

\* faulty variant of ExtractJsonBlob: the defaults replace the object's fields
ExtractJsonBlobDefaultsWin(text) ==
  [action |-> JStr("note"), confidence |-> JNum("0.0"),
   diagnosis |-> JStr("unspecified")] @@ JsonLoads(MatchGroup(text))

\* _extract_json_blob raises (no match, or json.loads fails)
ExtractRaises(text) == ~HasMatch(text) \/ ~JsonParses(MatchGroup(text))
\* _extract_json_blob(text) when it returns
ExtractJsonBlob(text) ==
  SetDefault(
    SetDefault(
      SetDefault(JsonLoads(MatchGroup(text)), "action", JStr("note")),
      "confidence", JNum("0.0")),
    "diagnosis", JStr("unspecified"))

\* handler lines 226-230: the plan, best effort
DefaultPlan ==
  [action |-> JStr("note"), confidence |-> JNum("0.0"), diagnosis |-> JStr("missing")]
ParsePlan(text) == IF ExtractRaises(text) THEN DefaultPlan ELSE ExtractJsonBlob(text)

\* plan.get("action", "note")
PlanAction(plan) == IF "action" \in DOMAIN plan THEN plan["action"] ELSE JStr("note")
\* plan.get("desiredCount", 1)
PlanDesired(plan) ==
  IF "desiredCount" \in DOMAIN plan THEN plan["desiredCount"] ELSE JNum("1")

(* --------------------------- target resolution ------------------------- *)
\* _discover_cluster_service(detail) with the configured defaults
DiscoverClusterService(detail, defCluster, defService) ==
  LET cluster_arn == GetOr(detail, "clusterArn", GetOr(detail, "cluster", Empty))
      grp == IF "group" \in DOMAIN detail THEN detail["group"] ELSE Empty
  IN  IF grp # Empty /\ StartsWith(grp, ServicePrefix)
      THEN [cluster |-> IF cluster_arn # Empty THEN cluster_arn ELSE defCluster,
            service |-> SplitOnceRest(grp, ":")]
      ELSE IF "serviceArn" \in DOMAIN detail
      THEN LET parts == Split(detail["serviceArn"], "/")
           IN  [cluster |-> IF cluster_arn # Empty THEN cluster_arn
                            ELSE Join(AllButLast(parts), "/"),
                service |-> parts[Len(parts)]]
      ELSE [cluster |-> IF cluster_arn # Empty THEN cluster_arn ELSE defCluster,
            service |-> defService]


(* ------------------------------- state --------------------------------- *)
VARIABLES
  cfg,          \* the environment variables read at import (lines 8-19)
  asg,          \* the Auto Scaling groups named ASG_NAME: none or one
  svc,          \* the ECS services of the target: none or one
  tasks,        \* the RUNNING tasks of the service, as list_tasks returns them
  bedrockText,  \* per invocation: the text the model returns when invoked
  inv,          \* per invocation: position in handler and its locals
  calls         \* every external call made, in order

vars == <<cfg, asg, svc, tasks, bedrockText, inv, calls>>

\* the invocations of the Lambda that may run, possibly overlapping
Invocations == {1, 2}

NoPlan == <<>>
NoResult == <<>>
NoGroup == <<>>
NoService == <<>>

\* an invocation that has received its event and not yet run a line
Triggered(event) ==
  [pc |-> "trigger", event |-> event, text |-> Empty, plan |-> NoPlan,
   cluster |-> Empty, service |-> Empty, desired |-> 0, task_arn |-> 0,
   listed |-> <<>>, g |-> NoGroup, seen |-> NoService, changed_asg |-> FALSE,
   acted |-> FALSE, result |-> NoResult]
\* an invocation that never happens
NotInvoked == [Triggered(<<>>) EXCEPT !.pc = "absent"]

(* --------------------------- handler predicates ------------------------ *)
\* "not x" for an optional str: None or ""
Falsy(x) == x \in {"None", ""}

\* faulty variant of BedrockOff: the role is not looked at
BedrockOffFlagOnly(c) == ~c.BEDROCK_ENABLED

\* line 212: not BEDROCK_ENABLED or not ASSUME_ROLE_ARN
BedrockOff(c) == ~c.BEDROCK_ENABLED \/ Falsy(c.ASSUME_ROLE_ARN)

\* str.lower() on the mode strings of the model
Lower(s) ==
  CASE s = "ACTIVE" -> "active"
    [] s = "Active" -> "active"
    [] s = "PASSIVE" -> "passive"
    [] OTHER -> s

\* faulty variant of ModeActive: tests that a mode is set, not which
ModeActiveTruthy(c) == c.SELF_HEAL_MODE # ""

\* line 238: SELF_HEAL_MODE.lower() == "active"
ModeActive(c) == Lower(c.SELF_HEAL_MODE) = "active"

\* event.get("detail", {})
DetailOf(event) == IF "detail" \in DOMAIN event THEN event["detail"] ELSE <<>>

\* lines 241-243: placement failure caused by a capacity shortage
CapacityShortage(event) ==
  LET detail == DetailOf(event)
  IN  /\ "detail-type" \in DOMAIN event
      /\ event["detail-type"] = "ECS Service Action"
      /\ "eventName" \in DOMAIN detail
      /\ detail["eventName"] = "SERVICE_TASK_PLACEMENT_FAILURE"
      /\ Contains(IF "reason" \in DOMAIN detail THEN detail["reason"] ELSE Empty,
                  CapacityMarker)

\* faulty variant of AsgBelowOne: off by one on the desired capacity
AsgBelowOneInclusive(g) == g.DesiredCapacity <= 1 \/ g.MinSize < 1

\* line 185: des_sz < 1 or min_sz < 1
AsgBelowOne(g) == g.DesiredCapacity < 1 \/ g.MinSize < 1

\* faulty variant of AsgRaised: the maximum is passed on as it was read
AsgRaisedKeepMax(g) ==
  [MinSize |-> 1, DesiredCapacity |-> 1, MaxSize |-> g.MaxSize]

\* lines 186-193: the group as update_auto_scaling_group leaves it
AsgRaised(g) ==
  [MinSize |-> 1, DesiredCapacity |-> 1,
   MaxSize |-> IF g.MaxSize > 1 THEN g.MaxSize ELSE 1]

\* line 198: svc.get("desiredCount", 0) < 1
SvcBelowOne(s) == s.desiredCount < 1

(* ------------------------------- results ------------------------------- *)
RespDisabled ==
  [statusCode |-> 200, body |-> [ok |-> TRUE, text |-> "Bedrock disabled"]]
RespBedrockFailed ==
  [statusCode |-> 500, body |-> [ok |-> FALSE, error |-> "str(e)"]]
RespHealFailed(plan) ==
  [statusCode |-> 500, body |-> [ok |-> FALSE, plan |-> plan, error |-> "str(e)"]]
\* faulty variant of RespDone: reports the plan of line 226, not the parsed one
RespDoneInitialPlan(mode, plan, acted) ==
  [statusCode |-> 200,
   body |-> [ok |-> TRUE, mode |-> mode, plan |-> DefaultPlan, acted |-> acted]]
RespDone(mode, plan, acted) ==
  [statusCode |-> 200,
   body |-> [ok |-> TRUE, mode |-> mode, plan |-> plan, acted |-> acted]]

(* ------------------------------- steps --------------------------------- *)
\* the record of one external call: the invocation and the function of the
\* source that made it, the call, its argument, and whether it returned (ok)
\* or raised
Call(i, fn, op, n, ok) == [by |-> i, fn |-> fn, op |-> op, n |-> n, ok |-> ok]

\* the calls that change the control plane
MutatingOps ==
  {"asg.update_auto_scaling_group", "ecs.update_service.forceNewDeployment",
   "ecs.update_service.desiredCount", "ecs.stop_task"}
\* every call to the control plane (ECS and Auto Scaling)
ControlPlaneOps ==
  MutatingOps \cup
  {"asg.describe_auto_scaling_groups", "ecs.describe_services", "ecs.list_tasks"}

\* the handler returns r
Return(i, r) == inv' = [inv EXCEPT ![i].pc = "done", ![i].result = r]
\* lines 262-270: the final return, after an action ran (acted) or none did
ReturnDone(i, acted) ==
  inv' = [inv EXCEPT ![i].pc = "done", ![i].acted = acted,
                     ![i].result = RespDone(cfg.SELF_HEAL_MODE, inv[i].plan, acted)]
\* faulty variant of ReturnHealFailed: the exception is swallowed and the
\* handler returns the success result, nothing acted
ReturnHealFailedSwallowed(i) == ReturnDone(i, FALSE)

\* lines 258-260: an exception inside the try of the heal action
ReturnHealFailed(i) == Return(i, RespHealFailed(inv[i].plan))

\* faulty variant of BedrockFailed: the exception is swallowed and the
\* handler goes on with an empty text
BedrockFailedSwallowed(i) == inv' = [inv EXCEPT ![i].pc = "plan"]

\* lines 221-223: an exception of _assume, _to_prompt or _invoke_bedrock
BedrockFailed(i) == Return(i, RespBedrockFailed)

\* lines 209-213: the handler starts; Bedrock off ends it at once
Start(i) ==
  /\ inv[i].pc = "trigger"
  /\ IF BedrockOff(cfg)
     THEN Return(i, RespDisabled)
     ELSE inv' = [inv EXCEPT ![i].pc = "assume"]
  /\ UNCHANGED <<cfg, asg, svc, tasks, bedrockText, calls>>

\* lines 217, 25-39: _assume, the STS call; it may raise
AssumeRole(i) ==
  /\ inv[i].pc = "assume"
  /\ \E ok \in BOOLEAN :
       /\ calls' = Append(calls, Call(i, "_assume", "sts.assume_role", 0, ok))
       /\ IF ok
          THEN inv' = [inv EXCEPT ![i].pc = "invoke"]
          ELSE BedrockFailed(i)
  /\ UNCHANGED <<cfg, asg, svc, tasks, bedrockText>>

\* lines 218-223, 75-117: the prompt and invoke_model; it may raise
InvokeBedrock(i) ==
  /\ inv[i].pc = "invoke"
  /\ \E ok \in BOOLEAN :
       /\ calls' = Append(calls, Call(i, "_invoke_bedrock", "bedrock.invoke_model", 0, ok))
       /\ IF ok
          THEN inv' = [inv EXCEPT ![i].pc = "plan", ![i].text = bedrockText[i]]
          ELSE BedrockFailed(i)
  /\ UNCHANGED <<cfg, asg, svc, tasks, bedrockText>>

\* faulty variant of PlanBranch: an action it does not know is a redeploy
PlanBranchElseRedeploy(plan) ==
  LET action == PlanAction(plan)
  IN  CASE action = JStr("scale_service") -> "scale_service"
        [] action = JStr("restart_unhealthy_task") -> "list_tasks"
        [] action = JStr("scale_capacity") -> "asg_describe"
        [] OTHER -> "force_redeploy"

\* lines 248-257: where the model's action sends the handler
\* (a pc of "done" is the fall-through: no branch matches)
PlanBranch(plan) ==
  LET action == PlanAction(plan)
  IN  CASE action = JStr("force_redeploy") -> "force_redeploy"
        [] action = JStr("scale_service") -> "scale_service"
        [] action = JStr("restart_unhealthy_task") -> "list_tasks"
        [] action = JStr("scale_capacity") -> "asg_describe"
        [] OTHER -> "done"

\* faulty variant of HealBranch: the capacity override is left out
HealBranchNoOverride(c, event, plan, target) ==
  IF ModeActive(c) /\ target.cluster # Empty /\ target.service # Empty
  THEN PlanBranch(plan)
  ELSE "done"
\* faulty variant of HealBranch: the service is not required
HealBranchClusterOnly(c, event, plan, target) ==
  IF ModeActive(c) /\ target.cluster # Empty
  THEN IF CapacityShortage(event) THEN "asg_describe" ELSE PlanBranch(plan)
  ELSE "done"

\* lines 238-257: the first step of the heal action, "done" when there is none
HealBranch(c, event, plan, target) ==
  IF ModeActive(c) /\ target.cluster # Empty /\ target.service # Empty
  THEN IF CapacityShortage(event) THEN "asg_describe" ELSE PlanBranch(plan)
  ELSE "done"

\* lines 225-257 up to the first control-plane call: parse the plan, resolve
\* the target, choose the action
Dispatch(i) ==
  /\ inv[i].pc = "plan"
  /\ LET plan == ParsePlan(inv[i].text)
         target == DiscoverClusterService(DetailOf(inv[i].event),
                                          cfg.DEFAULT_CLUSTER, cfg.DEFAULT_SERVICE)
         branch == HealBranch(cfg, inv[i].event, plan, target)
         located == [inv[i] EXCEPT !.plan = plan, !.cluster = target.cluster,
                                   !.service = target.service]
     IN  IF branch = "done"
         THEN inv' = [inv EXCEPT ![i] =
                [located EXCEPT !.pc = "done",
                                !.result = RespDone(cfg.SELF_HEAL_MODE, plan, FALSE)]]
         ELSE IF branch = "scale_service" /\ IntRaises(PlanDesired(plan))
         THEN inv' = [inv EXCEPT ![i] =
                [located EXCEPT !.pc = "done", !.result = RespHealFailed(plan)]]
         ELSE IF branch = "scale_service"
         THEN inv' = [inv EXCEPT ![i] =
                [located EXCEPT !.pc = branch, !.desired = IntOf(PlanDesired(plan))]]
         ELSE inv' = [inv EXCEPT ![i] = [located EXCEPT !.pc = branch]]
  /\ UNCHANGED <<cfg, asg, svc, tasks, bedrockText, calls>>

\* a call on the service may return only when the service exists
SvcCallOutcomes == IF svc = <<>> THEN {FALSE} ELSE BOOLEAN

\* lines 250, 151-153: _action_force_redeploy
ForceRedeploy(i) ==
  /\ inv[i].pc = "force_redeploy"
  /\ \E ok \in SvcCallOutcomes :
       /\ calls' = Append(calls, Call(i, "_action_force_redeploy",
                                 "ecs.update_service.forceNewDeployment", 0, ok))
       /\ IF ok THEN ReturnDone(i, TRUE) ELSE ReturnHealFailed(i)
  /\ UNCHANGED <<cfg, asg, svc, tasks, bedrockText>>

\* lines 252-253, 155-157: _action_scale
ScaleService(i) ==
  /\ inv[i].pc = "scale_service"
  /\ \E ok \in SvcCallOutcomes :
       /\ calls' = Append(calls,
            Call(i, "_action_scale", "ecs.update_service.desiredCount",
                 inv[i].desired, ok))
       /\ IF ok
          THEN /\ svc' = <<[svc[1] EXCEPT !.desiredCount = inv[i].desired]>>
               /\ ReturnDone(i, TRUE)
          ELSE /\ svc' = svc
               /\ ReturnHealFailed(i)
  /\ UNCHANGED <<cfg, asg, tasks, bedrockText>>

\* faulty variant of FirstTask: the last task listed
LastTask(ts) == ts[Len(ts)]

\* line 164: tasks[0]
FirstTask(ts) == ts[1]

\* lines 255, 160-164: _action_restart_one_task, the list_tasks call
ListTasks(i) ==
  /\ inv[i].pc = "list_tasks"
  /\ \E ok \in BOOLEAN :
       /\ calls' = Append(calls, Call(i, "_action_restart_one_task", "ecs.list_tasks", 0, ok))
       /\ IF ~ok THEN ReturnHealFailed(i)
          ELSE IF tasks = <<>> THEN ReturnDone(i, TRUE)
          ELSE inv' = [inv EXCEPT ![i].pc = "stop_task", ![i].listed = tasks,
                                  ![i].task_arn = FirstTask(tasks)]
  /\ UNCHANGED <<cfg, asg, svc, tasks, bedrockText>>

\* the running tasks once task t has been stopped
WithoutTask(ts, t) == SelectSeq(ts, LAMBDA x : x # t)

\* lines 165-166: _action_restart_one_task, the stop_task call
StopTask(i) ==
  /\ inv[i].pc = "stop_task"
  /\ \E ok \in BOOLEAN :
       /\ calls' = Append(calls, Call(i, "_action_restart_one_task", "ecs.stop_task", inv[i].task_arn, ok))
       /\ IF ok
          THEN /\ tasks' = WithoutTask(tasks, inv[i].task_arn)
               /\ ReturnDone(i, TRUE)
          ELSE /\ tasks' = tasks
               /\ ReturnHealFailed(i)
  /\ UNCHANGED <<cfg, asg, svc, bedrockText>>

\* lines 174-185: _ensure_capacity_then_run, describe_auto_scaling_groups;
\* the call may raise, and [0] raises when no group has the name
AsgDescribe(i) ==
  /\ inv[i].pc = "asg_describe"
  /\ \E ok \in BOOLEAN :
       /\ calls' = Append(calls, Call(i, "_ensure_capacity_then_run",
                                      "asg.describe_auto_scaling_groups", 0, ok))
       /\ IF ~ok \/ asg = <<>> THEN ReturnHealFailed(i)
          ELSE inv' = [inv EXCEPT
                 ![i].g = asg[1], ![i].changed_asg = FALSE,
                 ![i].pc = IF AsgBelowOne(asg[1]) THEN "asg_update" ELSE "svc_describe"]
  /\ UNCHANGED <<cfg, asg, svc, tasks, bedrockText>>

\* lines 186-194: update_auto_scaling_group, from the sizes read before
AsgUpdate(i) ==
  /\ inv[i].pc = "asg_update"
  /\ \E ok \in BOOLEAN :
       /\ calls' = Append(calls, Call(i, "_ensure_capacity_then_run",
                                      "asg.update_auto_scaling_group", 1, ok))
       /\ IF ok
          THEN /\ asg' = <<AsgRaised(inv[i].g)>>
               /\ inv' = [inv EXCEPT ![i].changed_asg = TRUE, ![i].pc = "svc_describe"]
          ELSE /\ asg' = asg
               /\ ReturnHealFailed(i)
  /\ UNCHANGED <<cfg, svc, tasks, bedrockText>>

\* lines 203-205 and the return to the handler: what follows the service step
AfterService(i, s) ==
  IF inv[i].changed_asg
  THEN inv' = [inv EXCEPT ![i].pc = "sleep", ![i].seen = s]
  ELSE inv' = [inv EXCEPT ![i].pc = "done", ![i].seen = s, ![i].acted = TRUE,
                          ![i].result = RespDone(cfg.SELF_HEAL_MODE, inv[i].plan, TRUE)]

\* lines 197-198: describe_services; the call may raise, and [0] raises when
\* the service does not exist
SvcDescribe(i) ==
  /\ inv[i].pc = "svc_describe"
  /\ \E ok \in BOOLEAN :
       /\ calls' = Append(calls, Call(i, "_ensure_capacity_then_run",
                                      "ecs.describe_services", 0, ok))
       /\ IF ~ok \/ svc = <<>> THEN ReturnHealFailed(i)
          ELSE IF SvcBelowOne(svc[1])
          THEN inv' = [inv EXCEPT ![i].pc = "svc_update", ![i].seen = svc[1]]
          ELSE AfterService(i, svc[1])
  /\ UNCHANGED <<cfg, asg, svc, tasks, bedrockText>>

\* faulty variant of SvcUpdate: the count is raised by one from what it is,
\* not set to 1
SvcUpdateIncrement(i) ==
  /\ inv[i].pc = "svc_update"
  /\ \E ok \in SvcCallOutcomes :
       /\ calls' = Append(calls, Call(i, "_ensure_capacity_then_run",
                                      "ecs.update_service.desiredCount", 1, ok))
       /\ IF ok
          THEN /\ svc' = <<[svc[1] EXCEPT !.desiredCount = @ + 1]>>
               /\ AfterService(i, inv[i].seen)
          ELSE /\ svc' = svc
               /\ ReturnHealFailed(i)
  /\ UNCHANGED <<cfg, asg, tasks, bedrockText>>

\* lines 199-200: update_service(desiredCount=1)
SvcUpdate(i) ==
  /\ inv[i].pc = "svc_update"
  /\ \E ok \in SvcCallOutcomes :
       /\ calls' = Append(calls, Call(i, "_ensure_capacity_then_run",
                                      "ecs.update_service.desiredCount", 1, ok))
       /\ IF ok
          THEN /\ svc' = <<[svc[1] EXCEPT !.desiredCount = 1]>>
               /\ AfterService(i, inv[i].seen)
          ELSE /\ svc' = svc
               /\ ReturnHealFailed(i)
  /\ UNCHANGED <<cfg, asg, tasks, bedrockText>>

\* lines 203-205: time.sleep(10) after the group was changed
Sleep(i) ==
  /\ inv[i].pc = "sleep"
  /\ calls' = Append(calls, Call(i, "_ensure_capacity_then_run", "time.sleep", 10, TRUE))
  /\ ReturnDone(i, TRUE)
  /\ UNCHANGED <<cfg, asg, svc, tasks, bedrockText>>

(* ------------------------------- inputs -------------------------------- *)
\* all sequences over S of length at most n
SeqsUpTo(S, n) == UNION {[1..k -> S] : k \in 0..n}

\* a dict entry that may be absent: the empty dict, or {k: v} for v in S
Entry(k, S) == {<<>>} \cup {k :> v : v \in S}

\* the configuration of lines 8-19, with the defaults of the source
BaseCfg(mode) ==
  [BEDROCK_ENABLED |-> TRUE, ASSUME_ROLE_ARN |-> "arn:aws:iam::role",
   SELF_HEAL_MODE |-> mode, MAX_ACTIONS_PER_INVOC |-> 1,
   DEFAULT_CLUSTER |-> <<"agentic-poc-cluster">>,
   DEFAULT_SERVICE |-> <<"agentic-poc-service">>]
Modes == {"passive", "active", "ACTIVE"}
AllConfigs ==
  [BEDROCK_ENABLED : BOOLEAN, ASSUME_ROLE_ARN : {"None", "", "arn:aws:iam::role"},
   SELF_HEAL_MODE : Modes \cup {"PASSIVE"}, MAX_ACTIONS_PER_INVOC : {0, 1},
   DEFAULT_CLUSTER : {Empty, <<"agentic-poc-cluster">>},
   DEFAULT_SERVICE : {Empty, <<"agentic-poc-service">>}]

\* the control plane
AsgStates ==
  {<<>>} \cup
  {<<[MinSize |-> a, DesiredCapacity |-> b, MaxSize |-> c]>> :
     <<a, b, c>> \in {t \in (0..MaxCap) \X (0..MaxCap) \X (0..MaxCap) :
                        t[1] <= t[2] /\ t[2] <= t[3]}}
SvcStates == {<<>>} \cup {<<[desiredCount |-> n]>> : n \in 0..MaxCap}
TaskLists ==
  {ts \in SeqsUpTo(1..MaxTasks, MaxTasks) :
     \A a, b \in 1..Len(ts) : a # b => ts[a] # ts[b]}
Asg0 == <<[MinSize |-> 0, DesiredCapacity |-> 0, MaxSize |-> 1]>>
Svc0 == <<[desiredCount |-> 0]>>
Tasks0 == <<1>>

\* detail.reason
Reasons ==
  {Empty, <<"x">>, CapacityMarker, <<"x">> \o CapacityMarker \o <<"x">>,
   <<"RESOURCE", "x", ":", "INSTANCE">>, <<"RESOURCE", ":">>}
\* what detail says of the target: nothing, a service group, a service group
\* with an empty name, a service ARN without a path, a service ARN with one
TargetShapes ==
  {<<>>, "group" :> <<"service", ":", "orders">>, "group" :> <<"service", ":">>,
   "serviceArn" :> <<"orders">>, "serviceArn" :> <<"prod", "/", "orders">>}
DetailTypes == {"ECS Service Action", "ECS Task State Change"}
EventNames == {"SERVICE_TASK_PLACEMENT_FAILURE", "SERVICE_STEADY_STATE"}
MainDetails ==
  {en @@ r @@ tg : en \in Entry("eventName", EventNames),
                   r \in Entry("reason", Reasons), tg \in TargetShapes}
MainEvents ==
  {dt @@ de : dt \in Entry("detail-type", DetailTypes),
              de \in Entry("detail", MainDetails)}

\* an event of a resolved service, without and with the capacity shortage
PlainEvent ==
  ("detail-type" :> "ECS Service Action") @@
  ("detail" :> (("eventName" :> "SERVICE_STEADY_STATE") @@
                ("group" :> <<"service", ":", "orders">>)))
ShortageEvent ==
  ("detail-type" :> "ECS Service Action") @@
  ("detail" :> (("eventName" :> "SERVICE_TASK_PLACEMENT_FAILURE") @@
                ("reason" :> (<<"x">> \o CapacityMarker)) @@
                ("group" :> <<"service", ":", "orders">>)))

\* every detail of the target fields, for the resolution
ResolveDetails ==
  {g @@ ca @@ c @@ sa :
     g \in Entry("group", SeqsUpTo({"service", ":", "a"}, MaxStrLen)),
     ca \in Entry("clusterArn", {Empty, <<"ca">>}),
     c \in Entry("cluster", {<<"c">>}),
     sa \in Entry("serviceArn", SeqsUpTo({"/", "s"}, MaxStrLen))}

\* the model's text
ActionNames ==
  {"note", "none", "force_redeploy", "scale_service", "restart_unhealthy_task",
   "scale_capacity", "rollback"}
\* an object whose action is no string
NullActionText == <<LB, Member("action", JNull), Member("confidence", JNum("0.9")), RB>>
PlanText(action, extra) ==
  <<Junk, LB, Member("diagnosis", JStr("stuck")), Member("confidence", JNum("0.86")),
    Member("action", JStr(action))>> \o extra \o <<RB>>
ActionTexts == {PlanText(a, <<>>) : a \in ActionNames} \cup {<<Junk>>}
DesiredCounts ==
  {JNum("0"), JNum("2"), JNum("2.7"), JStr("2"), JStr("two"), JNull}
ScaleTexts ==
  {PlanText("scale_service", <<Member("desiredCount", v)>>) : v \in DesiredCounts}
\* every text of braces, junk and one member, and every object wrapped in junk
BraceTexts ==
  SeqsUpTo({LB, RB, Junk, Member("action", JStr("force_redeploy"))}, MaxTextLen)
Members ==
  {Member("action", JStr("force_redeploy")), Member("action", JStr("scale_capacity")),
   Member("confidence", JNum("0.9")), Member("diagnosis", JStr("bad image")),
   Member("desiredCount", JNum("2"))}
ObjectTexts ==
  {pre \o <<LB>> \o ms \o <<RB>> \o post :
     pre \in {Empty, <<Junk>>}, ms \in SeqsUpTo(Members, MaxMembers),
     post \in {Empty, <<Junk>>}}

(* ---------------------------- specification ---------------------------- *)
\* one invocation is triggered with its event; the model's answer is fixed
InitWith(c, e, t, a, s, ts) ==
  /\ cfg = c
  /\ asg = a
  /\ svc = s
  /\ tasks = ts
  /\ bedrockText = [i \in Invocations |-> IF i = 1 THEN t ELSE Empty]
  /\ inv = [i \in Invocations |-> IF i = 1 THEN Triggered(e) ELSE NotInvoked]
  /\ calls = <<>>

\* every event of the overlay's fields, every mode, every action
InitEvents ==
  \E m \in Modes, e \in MainEvents, t \in ActionTexts \cup {NullActionText} :
    InitWith(BaseCfg(m), e, t, Asg0, Svc0, Tasks0)
\* every configuration
InitConfigs ==
  \E c \in AllConfigs, e \in {PlainEvent, ShortageEvent, <<>>}, t \in ActionTexts :
    InitWith(c, e, t, Asg0, Svc0, Tasks0)
\* every state of the capacity group and of the service
InitCapacity ==
  \E e \in {PlainEvent, ShortageEvent}, t \in ActionTexts \cup ScaleTexts,
     a \in AsgStates, s \in SvcStates :
    InitWith(BaseCfg("active"), e, t, a, s, Tasks0)
\* every list of running tasks
InitTasks ==
  \E e \in {PlainEvent, ShortageEvent}, s \in SvcStates, ts \in TaskLists :
    InitWith(BaseCfg("active"), e, PlanText("restart_unhealthy_task", <<>>), Asg0, s, ts)
\* every text
InitTexts ==
  \E m \in {"passive", "active"}, t \in BraceTexts \cup ObjectTexts :
    InitWith(BaseCfg(m), PlainEvent, t, Asg0, Svc0, Tasks0)
\* every detail of the target fields, with and without configured defaults
InitTargets ==
  \E dc \in {Empty, <<"agentic-poc-cluster">>}, d \in ResolveDetails :
    InitWith([BaseCfg("active") EXCEPT !.DEFAULT_CLUSTER = dc,
                !.DEFAULT_SERVICE = IF dc = Empty THEN Empty
                                    ELSE <<"agentic-poc-service">>],
             "detail" :> d, PlanText("force_redeploy", <<>>), Asg0, Svc0, Tasks0)

\* the runs checked: each disjunct is exhaustive in some of the inputs
Init ==
  \/ InitEvents
  \/ InitConfigs
  \/ InitCapacity
  \/ InitTasks
  \/ InitTexts
  \/ InitTargets

Next ==
  \E i \in Invocations :
    \/ Start(i)
    \/ AssumeRole(i)
    \/ InvokeBedrock(i)
    \/ Dispatch(i)
    \/ ForceRedeploy(i)
    \/ ScaleService(i)
    \/ ListTasks(i)
    \/ StopTask(i)
    \/ AsgDescribe(i)
    \/ AsgUpdate(i)
    \/ SvcDescribe(i)
    \/ SvcUpdate(i)
    \/ Sleep(i)

Spec == Init /\ [][Next]_vars

(* ---------------------- two overlapping invocations -------------------- *)
\* an event of a resolved service and a plan that asks for the capacity action
CapacityPlanText == PlanText("scale_capacity", <<>>)
\* the two ways an invocation comes to run _ensure_capacity_then_run: by the
\* override (line 244) and by the plan (line 257)
CapacityTriggers ==
  {<<ShortageEvent, PlanText("restart_unhealthy_task", <<>>)>>,
   <<PlainEvent, CapacityPlanText>>}
\* the groups and services the two invocations start from
OverlapAsgStates ==
  {Asg0,
   <<[MinSize |-> 0, DesiredCapacity |-> 0, MaxSize |-> 0]>>,
   <<[MinSize |-> 0, DesiredCapacity |-> MaxCap, MaxSize |-> MaxCap]>>,
   <<[MinSize |-> 1, DesiredCapacity |-> 1, MaxSize |-> MaxCap]>>}
OverlapSvcStates == {Svc0, <<[desiredCount |-> MaxCap]>>}

\* both invocations are triggered, in active mode, against the same group and
\* the same service
InitTwo ==
  \E t1 \in CapacityTriggers, t2 \in CapacityTriggers,
     a \in OverlapAsgStates, s \in OverlapSvcStates :
    /\ cfg = BaseCfg("active")
    /\ asg = a
    /\ svc = s
    /\ tasks = Tasks0
    /\ bedrockText = [i \in Invocations |-> IF i = 1 THEN t1[2] ELSE t2[2]]
    /\ inv = [i \in Invocations |-> Triggered(IF i = 1 THEN t1[1] ELSE t2[1])]
    /\ calls = <<>>

\* the steps of the two invocations, in any interleaving
NextTwo ==
  \E i \in Invocations :
    \/ Start(i)
    \/ AssumeRole(i)
    \/ InvokeBedrock(i)
    \/ Dispatch(i)
    \/ AsgDescribe(i)
    \/ AsgUpdate(i)
    \/ SvcDescribe(i)
    \/ SvcUpdate(i)
    \/ Sleep(i)

SpecTwo == InitTwo /\ [][NextTwo]_vars

(* ------------------------------ properties ----------------------------- *)
Done(i) == inv[i].pc = "done"
\* the handler has parsed the plan and resolved the target (lines 225-234)
Dispatched(i) == inv[i].plan # NoPlan
\* the calls invocation i has made so far (positions in the log)
CallsOf(i) == {k \in 1..Len(calls) : calls[k].by = i}
OpsOf(i) == {calls[k].op : k \in CallsOf(i)}
\* the model answered invocation i
ModelAnswered(i) ==
  \E k \in CallsOf(i) : calls[k].op = "bedrock.invoke_model" /\ calls[k].ok
\* the result is the success result and says acted = b
ReportsActed(i, b) ==
  /\ Done(i)
  /\ inv[i].result.statusCode = 200
  /\ DOMAIN inv[i].result.body = {"ok", "mode", "plan", "acted"}
  /\ inv[i].result.body.ok = TRUE
  /\ inv[i].result.body.acted = b
\* the result is the failure of the heal action, carrying the plan
ReportsHealFailure(i) ==
  /\ Done(i)
  /\ inv[i].result.statusCode = 500
  /\ DOMAIN inv[i].result.body = {"ok", "plan", "error"}
  /\ inv[i].result.body.ok = FALSE
  /\ inv[i].result.body.plan = inv[i].plan
IsPassive == cfg.SELF_HEAL_MODE \in {"passive", "PASSIVE"}
IsActive == cfg.SELF_HEAL_MODE \in {"active", "ACTIVE", "Active"}
\* the event is a task placement failure whose reason holds RESOURCE:INSTANCE
ShortageSignature(event) ==
  /\ "detail-type" \in DOMAIN event /\ event["detail-type"] = "ECS Service Action"
  /\ "detail" \in DOMAIN event
  /\ "eventName" \in DOMAIN event["detail"]
  /\ event["detail"]["eventName"] = "SERVICE_TASK_PLACEMENT_FAILURE"
  /\ "reason" \in DOMAIN event["detail"]
  /\ LET r == event["detail"]["reason"]
     IN  \E k \in 1..Len(r) :
           /\ k + 2 <= Len(r)
           /\ r[k] = "RESOURCE" /\ r[k + 1] = ":" /\ r[k + 2] = "INSTANCE"
\* a step of _ensure_capacity_then_run raised: a call, or [0] on an empty list
CapacityStepFailed(i) ==
  \/ \E k \in CallsOf(i) : calls[k].fn = "_ensure_capacity_then_run" /\ ~calls[k].ok
  \/ /\ "asg.describe_auto_scaling_groups" \in OpsOf(i)
     /\ inv[i].g = NoGroup
  \/ /\ "ecs.describe_services" \in OpsOf(i)
     /\ inv[i].seen = NoService

\* C1: in passive mode, whatever the event and the plan of the model, the
\* invocation makes no mutating call (no update_service, no stop_task, no
\* update_auto_scaling_group) and, once the model has answered, ends with the
\* success result that carries the plan and acted = false.
C1_PassiveNeverExecutes ==
  \A i \in Invocations :
    IsPassive =>
      /\ OpsOf(i) \cap MutatingOps = {}
      /\ (Done(i) /\ ModelAnswered(i)) => (Dispatched(i) /\ ReportsActed(i, FALSE))
\* passive mode, capacity shortage in the event, and a plan that asks for a restart
C1_Witness ==
  \E i \in Invocations :
    /\ IsPassive /\ Done(i) /\ ShortageSignature(inv[i].event)
    /\ Dispatched(i) /\ inv[i].plan["action"] = JStr("restart_unhealthy_task")
    /\ inv[i].cluster # Empty /\ inv[i].service # Empty
    /\ ReportsActed(i, FALSE)

\* C2: in active mode with cluster and service resolved, when the event is a
\* placement failure whose reason holds RESOURCE:INSTANCE, the action run is
\* _ensure_capacity_then_run whatever the model recommended: every
\* control-plane call of the invocation is made by it (none by force redeploy,
\* by scale from the plan, or by restart), and the invocation ends with
\* acted = true; the only other end is the failure result, when a step of the
\* capacity action itself raised.
C2_ShortageRunsCapacity ==
  \A i \in Invocations :
    (IsActive /\ Dispatched(i) /\ ShortageSignature(inv[i].event)
     /\ inv[i].cluster # Empty /\ inv[i].service # Empty) =>
      /\ \A k \in CallsOf(i) :
           calls[k].op \in ControlPlaneOps =>
             calls[k].fn = "_ensure_capacity_then_run"
      /\ inv[i].pc \in {"asg_describe", "asg_update", "svc_describe", "svc_update",
                        "sleep", "done"}
      /\ Done(i) =>
           /\ "asg.describe_auto_scaling_groups" \in OpsOf(i)
           /\ IF CapacityStepFailed(i)
              THEN ReportsHealFailure(i)
              ELSE ReportsActed(i, TRUE)
\* active mode, shortage event, the model asked for a restart, capacity was run
C2_Witness ==
  \E i \in Invocations :
    /\ IsActive /\ Done(i) /\ Dispatched(i) /\ ShortageSignature(inv[i].event)
    /\ inv[i].plan["action"] = JStr("restart_unhealthy_task")
    /\ "asg.update_auto_scaling_group" \in OpsOf(i)
    /\ "ecs.stop_task" \notin OpsOf(i) /\ "ecs.list_tasks" \notin OpsOf(i)
    /\ ReportsActed(i, TRUE)

\* C3 as claimed: when the shortage signature matches, the plan in the result
\* has action = scale_capacity, with the diagnosis and confidence extracted
\* from the model's text, in passive and in active mode.
C3_ReportedPlanIsOverlaid ==
  \A i \in Invocations :
    (Done(i) /\ Dispatched(i) /\ ShortageSignature(inv[i].event)
     /\ "plan" \in DOMAIN inv[i].result.body) =>
      /\ inv[i].result.body.plan["action"] = JStr("scale_capacity")
      /\ inv[i].result.body.plan["diagnosis"] = ParsePlan(inv[i].text)["diagnosis"]
      /\ inv[i].result.body.plan["confidence"] = ParsePlan(inv[i].text)["confidence"]
\* C3 amended: when the shortage signature matches, the plan in the result
\* (success or heal failure) is the plan extracted from the model's text,
\* unchanged: its action is the model's action, its diagnosis and confidence
\* those extracted, in passive and in active mode; the override only chooses
\* the action run in active mode.
C3_ReportedPlanIsModelPlan ==
  \A i \in Invocations :
    (Done(i) /\ ModelAnswered(i) /\ ShortageSignature(inv[i].event)) =>
      /\ "plan" \in DOMAIN inv[i].result.body
      /\ inv[i].result.body.plan = ParsePlan(inv[i].text)
      /\ inv[i].result.body.plan["action"] = PlanAction(ParsePlan(inv[i].text))
\* shortage event in active mode: capacity was run, the result still carries
\* the model's restart plan
C3_Witness ==
  \E i \in Invocations :
    /\ IsActive /\ ShortageSignature(inv[i].event) /\ ReportsActed(i, TRUE)
    /\ "asg.describe_auto_scaling_groups" \in OpsOf(i)
    /\ inv[i].result.body.plan["action"] = JStr("restart_unhealthy_task")
    /\ inv[i].result.body.plan["confidence"] = JNum("0.86")

\* C4: when the resolved cluster or the resolved service is empty, in any mode
\* and for any plan (shortage signature included), the invocation makes no
\* control-plane call and ends with the success result, acted = false.
C4_UnresolvedTargetIsNoOp ==
  \A i \in Invocations :
    (Dispatched(i) /\ (inv[i].cluster = Empty \/ inv[i].service = Empty)) =>
      /\ OpsOf(i) \cap ControlPlaneOps = {}
      /\ ReportsActed(i, FALSE)
\* active mode, shortage signature, but the group names no service
C4_Witness ==
  \E i \in Invocations :
    /\ IsActive /\ ShortageSignature(inv[i].event) /\ Dispatched(i)
    /\ inv[i].service = Empty /\ inv[i].cluster # Empty
    /\ inv[i].plan["action"] = JStr("force_redeploy")
    /\ ReportsActed(i, FALSE)

\* C5 as claimed: when restart_unhealthy_task runs in active mode and
\* list_tasks returns no running task, no stop_task call is made and the
\* result says acted = false.
C5_RestartWithoutTasks ==
  \A i \in Invocations :
    (Done(i)
     /\ \E k \in CallsOf(i) : calls[k].op = "ecs.list_tasks" /\ calls[k].ok
     /\ inv[i].listed = <<>>) =>
      /\ "ecs.stop_task" \notin OpsOf(i)
      /\ ReportsActed(i, FALSE)

\* C6: when _ensure_capacity_then_run finds the group at MinSize >= 1 and
\* DesiredCapacity >= 1 and the service at desiredCount >= 1, the invocation
\* makes no mutating call and does not sleep.
C6_CapacityAlreadyThere ==
  \A i \in Invocations :
    (/\ inv[i].g # NoGroup /\ inv[i].seen # NoService
     /\ inv[i].g.MinSize >= 1 /\ inv[i].g.DesiredCapacity >= 1
     /\ inv[i].seen.desiredCount >= 1) =>
      /\ OpsOf(i) \cap MutatingOps = {}
      /\ "time.sleep" \notin OpsOf(i)
      /\ ReportsActed(i, TRUE)
\* the capacity action ran on a group of 1/1/2 and a service of 2
C6_Witness ==
  \E i \in Invocations :
    /\ Done(i) /\ inv[i].g # NoGroup /\ inv[i].seen # NoService
    /\ inv[i].g.MinSize = 1 /\ inv[i].g.DesiredCapacity = 1 /\ inv[i].g.MaxSize = 2
    /\ inv[i].seen.desiredCount = 2
    /\ OpsOf(i) \cap ControlPlaneOps =
         {"asg.describe_auto_scaling_groups", "ecs.describe_services"}

\* C7: when BEDROCK_ENABLED is off or no role is configured, every invocation
\* returns the success result at once: no call of any kind (STS, Bedrock,
\* ECS, Auto Scaling), no plan, nothing executed, for every event and mode.
C7_DisabledReturnsAtOnce ==
  \A i \in Invocations :
    (~cfg.BEDROCK_ENABLED \/ cfg.ASSUME_ROLE_ARN \in {"None", ""}) =>
      /\ CallsOf(i) = {}
      /\ inv[i].pc \in {"absent", "trigger", "done"}
      /\ inv[i].plan = NoPlan
      /\ Done(i) =>
           /\ inv[i].result.statusCode = 200
           /\ inv[i].result.body.ok = TRUE
           /\ DOMAIN inv[i].result.body = {"ok", "text"}
\* inference enabled but no role, active mode, shortage event: returned at once
C7_Witness ==
  \E i \in Invocations :
    /\ cfg.BEDROCK_ENABLED /\ cfg.ASSUME_ROLE_ARN = "None" /\ IsActive
    /\ ShortageSignature(inv[i].event)
    /\ Done(i) /\ inv[i].result.statusCode = 200 /\ calls = <<>>

\* C8: when the STS call or the Bedrock call raises, the invocation ends with
\* the failure result (status 500, ok = false, the error) and makes no
\* control-plane call, in active mode and with the shortage signature too.
C8_InferenceFailureIsFatal ==
  \A i \in Invocations :
    (\E k \in CallsOf(i) :
       calls[k].op \in {"sts.assume_role", "bedrock.invoke_model"} /\ ~calls[k].ok) =>
      /\ Done(i)
      /\ inv[i].result.statusCode = 500
      /\ inv[i].result.body.ok = FALSE
      /\ DOMAIN inv[i].result.body = {"ok", "error"}
      /\ OpsOf(i) \cap ControlPlaneOps = {}
\* active mode, shortage event, the Bedrock call raised
C8_Witness ==
  \E i \in Invocations :
    /\ IsActive /\ ShortageSignature(inv[i].event) /\ Done(i)
    /\ \E k \in CallsOf(i) : calls[k].op = "bedrock.invoke_model" /\ ~calls[k].ok
    /\ inv[i].result.statusCode = 500

\* the text holds a "{" with a "}" after it, and what they enclose: from the
\* first "{" to the last "}"
C9_HasBracePair(text) ==
  \E a, b \in 1..Len(text) : a < b /\ text[a] = LB /\ text[b] = RB
C9_Enclosed(text) ==
  LET a == CHOOSE x \in 1..Len(text) :
             text[x] = LB /\ \A y \in 1..Len(text) : text[y] = LB => x <= y
      b == CHOOSE x \in 1..Len(text) :
             text[x] = RB /\ \A y \in 1..Len(text) : text[y] = RB => y <= x
  IN  [k \in 1..(b - a + 1) |-> text[a + k - 1]]
C9_Required == {"action", "confidence", "diagnosis"}
\* the statement of C9, with noop the action of the defaulted plan
C9_Extraction(noop) ==
  \A i \in Invocations :
    (ModelAnswered(i) /\ inv[i].pc # "plan") =>
      /\ Dispatched(i)
      /\ C9_Required \subseteq DOMAIN inv[i].plan
      /\ IF ~C9_HasBracePair(inv[i].text) \/ ~JsonParses(C9_Enclosed(inv[i].text))
         THEN /\ inv[i].plan["action"] = noop
              /\ inv[i].plan["confidence"] = JNum("0.0")
              /\ (Done(i) /\ OpsOf(i) \cap ControlPlaneOps = {}) =>
                   ReportsActed(i, FALSE)
         ELSE LET obj == JsonLoads(C9_Enclosed(inv[i].text))
              IN  /\ DOMAIN inv[i].plan = DOMAIN obj \cup C9_Required
                  /\ \A k \in DOMAIN obj : inv[i].plan[k] = obj[k]
                  /\ "action" \notin DOMAIN obj => inv[i].plan["action"] = noop
                  /\ "confidence" \notin DOMAIN obj =>
                       inv[i].plan["confidence"] = JNum("0.0")
                  /\ "diagnosis" \notin DOMAIN obj =>
                       inv[i].plan["diagnosis"] = JStr("unspecified")

\* C9 as claimed: for every text of the model, extraction does not fail the
\* invocation and yields a plan with action, confidence and diagnosis: with no
\* "{" ... "}" pair, or when what the pair encloses does not parse, the plan has
\* action = none and confidence = 0; when it parses, the object's fields are
\* kept and only the absent ones of the three are defaulted (action = none,
\* confidence = 0, diagnosis = unspecified).
C9_DefaultActionNone == C9_Extraction(JStr("none"))
\* C9 amended: the same, with the defaulted action being "note", the no-op
\* action of the source, in both cases.
C9_DefaultActionNote == C9_Extraction(JStr("note"))
\* a text whose object parses, has a diagnosis and no action
C9_Witness ==
  \E i \in Invocations :
    /\ Dispatched(i) /\ C9_HasBracePair(inv[i].text)
    /\ JsonParses(C9_Enclosed(inv[i].text))
    /\ inv[i].text[1] = Junk
    /\ DOMAIN JsonLoads(C9_Enclosed(inv[i].text)) = {"diagnosis", "desiredCount"}
    /\ inv[i].plan["action"] = JStr("note")
    /\ inv[i].plan["diagnosis"] = JStr("bad image")

\* the cluster identifier of detail: clusterArn, else cluster, when not empty
C10_ClusterId(detail) ==
  IF "clusterArn" \in DOMAIN detail /\ Len(detail["clusterArn"]) > 0
  THEN detail["clusterArn"]
  ELSE IF "cluster" \in DOMAIN detail /\ Len(detail["cluster"]) > 0
  THEN detail["cluster"]
  ELSE <<>>
\* detail.group is of the form service:<name>
C10_IsServiceGroup(detail) ==
  /\ "group" \in DOMAIN detail
  /\ Len(detail["group"]) >= 2
  /\ detail["group"][1] = "service" /\ detail["group"][2] = ":"
\* position of the last "/" of a service identifier, 0 when it has none
C10_LastSlash(arn) ==
  IF \E k \in 1..Len(arn) : arn[k] = "/"
  THEN CHOOSE k \in 1..Len(arn) : arn[k] = "/" /\ \A j \in 1..Len(arn) : arn[j] = "/" => j <= k
  ELSE 0
C10_Path(arn) == [k \in 1..(C10_LastSlash(arn) - 1) |-> arn[k]]
C10_LastSegment(arn) ==
  [k \in 1..(Len(arn) - C10_LastSlash(arn)) |-> arn[C10_LastSlash(arn) + k]]
C10_GroupName(detail) ==
  [k \in 1..(Len(detail["group"]) - 2) |-> detail["group"][k + 2]]
\* the three strategies as the claim states them
C10_ClaimedTarget(detail, defCluster, defService) ==
  IF C10_IsServiceGroup(detail)
  THEN [cluster |-> IF C10_ClusterId(detail) # <<>> THEN C10_ClusterId(detail)
                    ELSE defCluster,
        service |-> C10_GroupName(detail)]
  ELSE IF "serviceArn" \in DOMAIN detail
  THEN [cluster |-> C10_Path(detail["serviceArn"]),
        service |-> C10_LastSegment(detail["serviceArn"])]
  ELSE [cluster |-> defCluster, service |-> defService]
\* the three strategies with the cluster identifier of detail first in each
C10_AmendedTarget(detail, defCluster, defService) ==
  IF C10_IsServiceGroup(detail)
  THEN [cluster |-> IF C10_ClusterId(detail) # <<>> THEN C10_ClusterId(detail)
                    ELSE defCluster,
        service |-> C10_GroupName(detail)]
  ELSE IF "serviceArn" \in DOMAIN detail
  THEN [cluster |-> IF C10_ClusterId(detail) # <<>> THEN C10_ClusterId(detail)
                    ELSE C10_Path(detail["serviceArn"]),
        service |-> C10_LastSegment(detail["serviceArn"])]
  ELSE [cluster |-> IF C10_ClusterId(detail) # <<>> THEN C10_ClusterId(detail)
                    ELSE defCluster,
        service |-> defService]

\* C10 as claimed: the resolved target is (1) for a group service:<name>, the
\* name and the cluster identifier of detail, else the default cluster; (2)
\* otherwise, for a service identifier in detail, its path without the last
\* segment and its last segment; (3) otherwise the default cluster and the
\* default service.
C10_TargetAsClaimed ==
  \A i \in Invocations :
    Dispatched(i) =>
      [cluster |-> inv[i].cluster, service |-> inv[i].service] =
        C10_ClaimedTarget(DetailOf(inv[i].event), cfg.DEFAULT_CLUSTER,
                          cfg.DEFAULT_SERVICE)
\* C10 amended: in all three strategies the cluster is the cluster identifier
\* of detail (clusterArn, else cluster) when it is present and not empty; only
\* without one is it (2) the path of the service identifier without its last
\* segment, (3) the default cluster. The service is as claimed.
C10_TargetClusterIdFirst ==
  \A i \in Invocations :
    Dispatched(i) =>
      [cluster |-> inv[i].cluster, service |-> inv[i].service] =
        C10_AmendedTarget(DetailOf(inv[i].event), cfg.DEFAULT_CLUSTER,
                          cfg.DEFAULT_SERVICE)
\* a service identifier with a path, and a cluster identifier beside it
C10_Witness ==
  \E i \in Invocations :
    /\ Dispatched(i)
    /\ DOMAIN DetailOf(inv[i].event) = {"clusterArn", "serviceArn"}
    /\ DetailOf(inv[i].event)["clusterArn"] = <<"ca">>
    /\ DetailOf(inv[i].event)["serviceArn"] = <<"s", "/", "s">>
    /\ inv[i].cluster = <<"ca">> /\ inv[i].service = <<"s">>

\* the actions the handler has a branch for
C11_KnownActions ==
  {JStr("force_redeploy"), JStr("scale_service"), JStr("restart_unhealthy_task"),
   JStr("scale_capacity")}
\* C11: when the action of the plan is none, or any value outside
\* {none, force_redeploy, scale_service, restart_unhealthy_task,
\* scale_capacity}, and the event does not have the shortage signature, the
\* invocation makes no control-plane call at all and ends with the success
\* result, acted = false, in every mode and for every target.
C11_UnknownActionIsNoOp ==
  \A i \in Invocations :
    (/\ Dispatched(i)
     /\ inv[i].plan["action"] \notin C11_KnownActions
     /\ ~ShortageSignature(inv[i].event)) =>
      /\ OpsOf(i) \cap ControlPlaneOps = {}
      /\ ReportsActed(i, FALSE)
\* active mode, resolved target, no shortage, and the model asked for a rollback
C11_Witness ==
  \E i \in Invocations :
    /\ IsActive /\ Dispatched(i) /\ ~ShortageSignature(inv[i].event)
    /\ inv[i].cluster # Empty /\ inv[i].service # Empty
    /\ inv[i].plan["action"] = JStr("rollback")
    /\ ReportsActed(i, FALSE)

\* the desired count C12 expects for the plan: the desiredCount of the plan
\* when it is a number (an integer, a float truncated, or a string of digits,
\* which may also count as not numeric), 1 when it is absent or not numeric
C12_CountsAllowed(plan) ==
  IF "desiredCount" \notin DOMAIN plan THEN {1}
  ELSE LET v == plan["desiredCount"]
       IN  CASE v = JNum("0") -> {0}
             [] v = JNum("1") -> {1}
             [] v = JNum("2") -> {2}
             [] v = JNum("2.7") -> {2, 3}
             [] v = JStr("2") -> {2, 1}
             [] OTHER -> {1}
\* C12 as claimed: when the action is scale_service in active mode with a
\* resolved target (and no shortage signature), update_service is called with
\* the desiredCount of the plan, or with 1 when desiredCount is absent or not
\* numeric, and, unless that call itself raises, the result is the success
\* result with acted = true; a desiredCount that is not numeric does not make
\* the invocation fail.
C12_ScaleServiceAlwaysUpdates ==
  \A i \in Invocations :
    (/\ IsActive /\ Dispatched(i) /\ Done(i)
     /\ inv[i].cluster # Empty /\ inv[i].service # Empty
     /\ ~ShortageSignature(inv[i].event)
     /\ inv[i].plan["action"] = JStr("scale_service")
     /\ \A k \in CallsOf(i) : calls[k].ok) =>
      /\ \E k \in CallsOf(i) :
           /\ calls[k].op = "ecs.update_service.desiredCount"
           /\ calls[k].n \in C12_CountsAllowed(inv[i].plan)
      /\ ReportsActed(i, TRUE)

\* the actions invocation i has attempted: the functions of the source whose
\* mutating calls it has made
C13_ActionsAttempted(i) ==
  {calls[k].fn : k \in {j \in CallsOf(i) : calls[j].op \in MutatingOps}}
\* C13 as claimed: in every invocation the number of actions attempted is at
\* most MAX_ACTIONS_PER_INVOC: with the default 1 the mutating calls are those
\* of one action only, and with a limit of 0 no mutating call is made.
C13_ActionLimitHolds ==
  \A i \in Invocations :
    /\ Cardinality(C13_ActionsAttempted(i)) <= cfg.MAX_ACTIONS_PER_INVOC
    /\ cfg.MAX_ACTIONS_PER_INVOC = 0 => OpsOf(i) \cap MutatingOps = {}

\* C14 as claimed: in the capacity action, when the group was updated, the
\* order is update_auto_scaling_group, then the settle delay, then
\* describe_services / update_service: no call on the service is made before
\* the sleep has been taken.
C14_SettleBeforeService ==
  \A i \in Invocations :
    \A k \in CallsOf(i) :
      (/\ calls[k].fn = "_ensure_capacity_then_run"
       /\ calls[k].op \in {"ecs.describe_services", "ecs.update_service.desiredCount"}
       /\ \E u \in CallsOf(i) :
            u < k /\ calls[u].op = "asg.update_auto_scaling_group" /\ calls[u].ok) =>
        \E s \in CallsOf(i) :
          /\ s < k /\ calls[s].op = "time.sleep"
          /\ \E u \in CallsOf(i) :
               u < s /\ calls[u].op = "asg.update_auto_scaling_group"

\* the stop_task calls of invocation i (positions in the log)
C15_Stops(i) == {k \in CallsOf(i) : calls[k].op = "ecs.stop_task"}
\* C15: an invocation makes at most one stop_task call; it makes it only when
\* the action run is restart_unhealthy_task and list_tasks returned a list
\* that is not empty; and the task stopped is the first of the list that the
\* list_tasks call of the same invocation returned.
C15_StopsOnlyFirstListed ==
  \A i \in Invocations :
    /\ Cardinality(C15_Stops(i)) <= 1
    /\ \A k \in C15_Stops(i) :
         /\ inv[i].plan["action"] = JStr("restart_unhealthy_task")
         /\ ~ShortageSignature(inv[i].event)
         /\ \E l \in CallsOf(i) :
              l < k /\ calls[l].op = "ecs.list_tasks" /\ calls[l].ok
         /\ Len(inv[i].listed) > 0
         /\ calls[k].n = Head(inv[i].listed)
         /\ calls[k].ok => \A x \in 1..Len(tasks) : tasks[x] # Head(inv[i].listed)
\* two tasks were running, listed as 2 then 1: task 2 was stopped, task 1 runs
C15_Witness ==
  \E i \in Invocations :
    /\ Done(i) /\ inv[i].listed = <<2, 1>>
    /\ \E k \in C15_Stops(i) : calls[k].n = 2 /\ calls[k].ok
    /\ tasks = <<1>>
    /\ ReportsActed(i, TRUE)

\* invocation i ran the capacity action to its end without an error
C16_CapacityCompleted(i) ==
  /\ ReportsActed(i, TRUE)
  /\ "asg.describe_auto_scaling_groups" \in OpsOf(i)
\* C16: once the capacity action has completed without error, whatever the
\* group and the service were before, the group has MinSize >= 1,
\* DesiredCapacity >= 1 and MaxSize >= 1, its MaxSize being the one it had
\* when that was already >= 1, and the service has desiredCount >= 1.
C16_CapacityPostcondition ==
  \A i \in Invocations :
    C16_CapacityCompleted(i) =>
      /\ asg # <<>> /\ svc # <<>>
      /\ asg[1].MinSize >= 1 /\ asg[1].DesiredCapacity >= 1 /\ asg[1].MaxSize >= 1
      /\ inv[i].g.MaxSize >= 1 => asg[1].MaxSize = inv[i].g.MaxSize
      /\ svc[1].desiredCount >= 1
\* the action found the group at 0/0/0 and the service at 0, and completed
C16_Witness ==
  \E i \in Invocations :
    /\ C16_CapacityCompleted(i)
    /\ inv[i].g = [MinSize |-> 0, DesiredCapacity |-> 0, MaxSize |-> 0]
    /\ inv[i].seen.desiredCount = 0
    /\ asg[1].MaxSize = 1 /\ svc[1].desiredCount = 1
    /\ "time.sleep" \in OpsOf(i)

\* C17: when a control-plane call made by an action raises (describe or
\* update of the group, describe or update of the service, list or stop of
\* tasks), the invocation ends with the failure result, ok = false, carrying
\* the plan and the error, and makes no call after the one that raised.
C17_ControlPlaneFailureIsFatal ==
  \A i \in Invocations :
    \A k \in CallsOf(i) :
      (calls[k].op \in ControlPlaneOps /\ ~calls[k].ok) =>
        /\ ReportsHealFailure(i)
        /\ inv[i].result.body.plan = ParsePlan(inv[i].text)
        /\ "error" \in DOMAIN inv[i].result.body
        /\ \A j \in CallsOf(i) : j <= k
\* the group was updated, then describe_services raised
C17_Witness ==
  \E i \in Invocations :
    /\ Done(i) /\ Len(calls) > 1
    /\ calls[Len(calls)].by = i
    /\ calls[Len(calls)].op = "ecs.describe_services" /\ ~calls[Len(calls)].ok
    /\ calls[Len(calls) - 1].op = "asg.update_auto_scaling_group"
    /\ calls[Len(calls) - 1].ok
    /\ inv[i].result.statusCode = 500
    /\ inv[i].result.body.plan["action"] = JStr("restart_unhealthy_task")

\* C18 as claimed: no invocation ends with its action half done: in every
\* terminal state where a mutating call of the invocation was applied, the
\* action ran to its end; the capacity action never ends with the group
\* updated and the service step not carried out.
C18_NeverPartial ==
  \A i \in Invocations :
    (Done(i) /\ \E k \in CallsOf(i) : calls[k].op \in MutatingOps /\ calls[k].ok) =>
      /\ ReportsActed(i, TRUE)
      /\ "asg.update_auto_scaling_group" \in OpsOf(i) =>
           /\ \E k \in CallsOf(i) : calls[k].op = "ecs.describe_services" /\ calls[k].ok
           /\ svc # <<>> /\ svc[1].desiredCount >= 1

\* C20 as claimed: the capacity action never lowers capacity: at every point
\* after it has read the group, the group's MinSize, DesiredCapacity and
\* MaxSize are each at least what the action read, and the service's
\* desiredCount is at least what the action read.
C20_NeverLowersCapacity ==
  \A i \in Invocations :
    /\ (inv[i].g # NoGroup /\ asg # <<>>) =>
         /\ asg[1].MinSize >= inv[i].g.MinSize
         /\ asg[1].DesiredCapacity >= inv[i].g.DesiredCapacity
         /\ asg[1].MaxSize >= inv[i].g.MaxSize
    /\ (inv[i].g # NoGroup /\ inv[i].seen # NoService /\ svc # <<>>) =>
         svc[1].desiredCount >= inv[i].seen.desiredCount

\* what one invocation of the capacity action makes of a group and of a service
C19_SingleAsg(g) ==
  IF g.MinSize >= 1 /\ g.DesiredCapacity >= 1 THEN g
  ELSE [MinSize |-> 1, DesiredCapacity |-> 1,
        MaxSize |-> IF g.MaxSize >= 1 THEN g.MaxSize ELSE 1]
C19_SingleSvc(s) == IF s.desiredCount >= 1 THEN s ELSE [desiredCount |-> 1]
\* C19: for two overlapping invocations in active mode that run the capacity
\* action against the same group and service, in every interleaving of their
\* describe and update calls: every change of the group and of the service is
\* the change a single invocation makes to the state it changes, also when the
\* update was computed from sizes read earlier, and once an invocation has
\* completed the state is the one a single invocation leaves, which no further
\* update by the other invocation alters: the effects do not compound.
C19_OverlapConverges ==
  /\ [][/\ asg' # asg => (asg # <<>> /\ asg' = <<C19_SingleAsg(asg[1])>>)
        /\ svc' # svc => (svc # <<>> /\ svc' = <<C19_SingleSvc(svc[1])>>)
        /\ \A i \in Invocations :
             C16_CapacityCompleted(i) => (asg' = asg /\ svc' = svc)]_vars
  /\ [](\A i \in Invocations :
          C16_CapacityCompleted(i) =>
            /\ asg = <<C19_SingleAsg(asg[1])>>
            /\ svc = <<C19_SingleSvc(svc[1])>>
            /\ asg[1].MinSize = 1 \/ asg[1].MinSize = inv[i].g.MinSize
            /\ svc[1].desiredCount = 1 \/ svc[1].desiredCount = inv[i].seen.desiredCount)
\* both invocations read the group at 0/0/0 and the service at 0, both updated
\* both, and both completed: the group is at 1/1/1 and the service at 1
C19_Witness ==
  /\ \A i \in Invocations :
       /\ C16_CapacityCompleted(i)
       /\ inv[i].g = [MinSize |-> 0, DesiredCapacity |-> 0, MaxSize |-> 0]
       /\ inv[i].seen.desiredCount = 0
       /\ \E k \in CallsOf(i) : calls[k].op = "asg.update_auto_scaling_group" /\ calls[k].ok
       /\ \E k \in CallsOf(i) : calls[k].op = "ecs.update_service.desiredCount" /\ calls[k].ok
  /\ asg = <<[MinSize |-> 1, DesiredCapacity |-> 1, MaxSize |-> 1]>>
  /\ svc = <<[desiredCount |-> 1]>>

=============================================================================
